---- MODULE Spec2Model ----
(***************************************************************************)
(* connect-log: a logging interceptor for ConnectRPC.                      *)
(*                                                                         *)
(* The module models the interceptor (interceptor.go), the counting stream *)
(* wrapper (stream.go), header redaction (headers.go) and error            *)
(* classification (errors.go / options.go).                                *)
(*                                                                         *)
(* Text that the code searches or splits (header names, procedure names)   *)
(* is a sequence of one-character strings; other text is a TLA+ string.    *)
(* An error value is the chain of its Unwrap() nodes, outermost first; nil *)
(* is the empty chain.                                                     *)
(***************************************************************************)
EXTENDS Integers, Sequences, FiniteSets, TLC

VARIABLES
    logger,         \* loggingInterceptor.logger: the handler behind it
    redactHeaders,  \* loggingInterceptor.redactHeaders
    contextLogFn,   \* loggingInterceptor.contextLogFn: attributes it yields, or NoFn
    errCanceled,    \* package-level singleton (errors.go)
    errDeadline,    \* package-level singleton (errors.go)
    pc,             \* position of the call: idle, handler, done, panicked
    call,           \* the call being served: kind, request, start time
    conn,           \* loggedStreamConn: sentCount, receivedCount, debugEnabled
    sendOp,         \* Send in flight on the wrapped connection
    recvOp,         \* Receive in flight on the wrapped connection
    obs,            \* what the environment saw: handler invocations, results
    log,            \* the logging calls made, each marked handled or dropped
    log2,           \* the same for the twin call (equal but for sensitive header values)
    clock,          \* wall clock
    allocs,         \* number of loggableError values allocated so far
    hdrIn,          \* redaction: the mapping passed in
    hdrOut,         \* redaction: the mapping returned
    classified,     \* classification: the <<input, result>> pairs so far
    served          \* the calls served at the same time, each with its own state

vars == <<logger, redactHeaders, contextLogFn, errCanceled, errDeadline, pc, call,
          conn, sendOp, recvOp, obs, log, log2, clock, allocs, hdrIn, hdrOut,
          classified, served>>

-----------------------------------------------------------------------------
(* Bounds of the model *)

MaxHeaders == 2     \* keys in a header mapping
MaxSend == 3        \* successful sends on a stream
MaxRecv == 2        \* successful receives on a stream
MaxElapsed == 1     \* clock ticks a handler may take
MaxWrap == 1        \* wrappers around an error leaf
MaxClassify == 2    \* classifications in a row
MaxCalls == 2       \* calls served at the same time
MaxCallMsgs == 1    \* successful sends, and receives, of each of them

-----------------------------------------------------------------------------
(* Text: strings.ToLower, strings.EqualFold, strings.Contains on ASCII *)

Uppers == <<"A","B","C","D","E","F","G","H","I","J","K","L","M",
            "N","O","P","Q","R","S","T","U","V","W","X","Y","Z">>
Lowers == <<"a","b","c","d","e","f","g","h","i","j","k","l","m",
            "n","o","p","q","r","s","t","u","v","w","x","y","z">>

ToLowerChar(c) ==
    IF \E i \in 1..Len(Uppers) : Uppers[i] = c
    THEN Lowers[CHOOSE i \in 1..Len(Uppers) : Uppers[i] = c]
    ELSE c

ToUpperChar(c) ==
    IF \E i \in 1..Len(Lowers) : Lowers[i] = c
    THEN Uppers[CHOOSE i \in 1..Len(Lowers) : Lowers[i] = c]
    ELSE c

ToLower(s) == [i \in 1..Len(s) |-> ToLowerChar(s[i])]

\* strings.EqualFold: equality under simple case folding, rune by rune
EqualFold(s, t) ==
    /\ Len(s) = Len(t)
    /\ \A i \in 1..Len(s) : ToUpperChar(s[i]) = ToUpperChar(t[i])

\* strings.Index: 0-based position of the first occurrence of sub in s, or -1
Index(s, sub) ==
    LET hits == {i \in 0..(Len(s) - Len(sub)) : SubSeq(s, i + 1, i + Len(sub)) = sub}
    IN  IF hits = {} THEN -1 ELSE CHOOSE i \in hits : \A j \in hits : i <= j

Contains(s, sub) == Index(s, sub) >= 0

sAuthorization == <<"a","u","t","h","o","r","i","z","a","t","i","o","n">>
sToken == <<"t","o","k","e","n">>
sSecret == <<"s","e","c","r","e","t">>
sPassword == <<"p","a","s","s","w","o","r","d">>

Redacted == <<"[REDACTED]">>

-----------------------------------------------------------------------------
(* headers.go *)

shouldRedactHeaderNoFold(key, list) ==
    \/ \E i \in 1..Len(list) : key = list[i]
    \/ key = sAuthorization
    \/ Contains(key, sToken)
    \/ Contains(key, sSecret)
    \/ Contains(key, sPassword)

shouldRedactHeader(key, list) ==
    LET keyLower == ToLower(key)
    IN  \/ \E i \in 1..Len(list) : EqualFold(keyLower, list[i])
        \/ keyLower = sAuthorization
        \/ Contains(keyLower, sToken)
        \/ Contains(keyLower, sSecret)
        \/ Contains(keyLower, sPassword)

redactHeadersMapListOnly(headers, list) ==
    [k \in DOMAIN headers |->
        IF \E i \in 1..Len(list) : EqualFold(ToLower(k), list[i])
        THEN Redacted ELSE headers[k]]

redactHeadersMap(headers, list) ==
    [k \in DOMAIN headers |->
        IF shouldRedactHeader(k, list) THEN Redacted ELSE headers[k]]

-----------------------------------------------------------------------------
(* options.go and New *)

\* slog levels
LevelDebug == -4
LevelInfo == 0
LevelWarn == 4
LevelError == 8

\* slog.DiscardHandler: enabled at no level
DiscardHandler == [discard |-> TRUE, min |-> LevelDebug, nil |-> FALSE]

LevelHandler(min) == [discard |-> FALSE, min |-> min, nil |-> FALSE]

\* the logger field holding a nil *slog.Logger: no handler behind it
NilPointer == [discard |-> TRUE, min |-> LevelDebug, nil |-> TRUE]

\* a *slog.Logger: nil, or a logger over a handler
NilLogger == [nil |-> TRUE, h |-> DiscardHandler]

Logger(h) == [nil |-> FALSE, h |-> h]

\* a ContextLogFunc: nil, or a function yielding attrs
NoFn == [nil |-> TRUE, attrs |-> <<>>]

ContextFn(attrs) == [nil |-> FALSE, attrs |-> attrs]

\* the defaults of New: slog.Default() and the two default names
DefaultOptions ==
    [Logger |-> Logger(LevelHandler(LevelInfo)),
     RedactHeaders |-> <<sAuthorization, sToken>>,
     ContextLogFn |-> NoFn]

\* the options: each sets one field of Options
WithLogger(l, o) == [o EXCEPT !.Logger = l]

WithRedactHeaders(headers, o) == [o EXCEPT !.RedactHeaders = headers]

WithContextLogFn(fn, o) == [o EXCEPT !.ContextLogFn = fn]

\* New, after the options were applied to the defaults: a nil logger becomes
\* the discard logger
New(options) ==
    [logger        |-> IF options.Logger.nil THEN DiscardHandler ELSE options.Logger.h,
     redactHeaders |-> options.RedactHeaders,
     contextLogFn  |-> options.ContextLogFn]

\* NewLoggingInterceptor, after the options were applied to the defaults: the
\* logger is stored as it is, nil included
NewLoggingInterceptor(options) ==
    [logger        |-> IF options.Logger.nil THEN NilPointer ELSE options.Logger.h,
     redactHeaders |-> options.RedactHeaders,
     contextLogFn  |-> options.ContextLogFn]

-----------------------------------------------------------------------------
(* Errors: the values the error classifier reads *)

\* connect.Code, in the order of the status enumeration
CodeCanceled == 1
CodeUnknown == 2
CodeDeadlineExceeded == 4
CodeNotFound == 5
CodeAborted == 10
CodeInternal == 13
AllCodes == 1..16

CodeNames == <<"canceled", "unknown", "invalid_argument", "deadline_exceeded",
               "not_found", "already_exists", "permission_denied",
               "resource_exhausted", "failed_precondition", "aborted",
               "out_of_range", "unimplemented", "internal", "unavailable",
               "data_loss", "unauthenticated">>

Nil == <<>>

\* a slog.Value: an attribute group, a string, or none (the error is no
\* slog.LogValuer)
NoLogValue == [kind |-> "none", group |-> <<>>, str |-> ""]

GroupValue(attrs) == [kind |-> "Group", group |-> attrs, str |-> ""]

StringValue(s) == [kind |-> "String", group |-> <<>>, str |-> s]

ErrNode(t, code, text) == <<[t |-> t, code |-> code, text |-> text, lv |-> NoLogValue]>>

ctxCanceled == ErrNode("canceled", 0, "context canceled")
ctxDeadlineExceeded == ErrNode("deadline", 0, "context deadline exceeded")
osErrDeadlineExceeded == ErrNode("osdeadline", 0, "i/o timeout")
ioEOF == ErrNode("eof", 0, "EOF")

\* errors.New(text)
ErrorsNew(text) == ErrNode("plain", 0, text)

\* fmt.Errorf(prefix + ": %w", err)
Errorf(prefix, err) == ErrNode("wrap", 0, prefix) \o err

\* connect.NewError(code, err)
NewError(code, err) == ErrNode("connect", code, "") \o err

\* an error that is a slog.LogValuer: detailedError of the tests
detailedError(field, reason) ==
    <<[t |-> "detailed", code |-> 0, text |-> "validation error",
       lv |-> GroupValue(<<<<"field", field>>, <<"reason", reason>>>>)]>>

\* an error with Error() = text and LogValue() = lv
LogValuerError(text, lv) == <<[t |-> "detailed", code |-> 0, text |-> text, lv |-> lv]>>

\* an error with LogValue() = lv and Unwrap() = err
LogValuerWrap(prefix, lv, err) ==
    <<[t |-> "wrap", code |-> 0, text |-> prefix, lv |-> lv]>> \o err

\* err.Error()
RECURSIVE ErrorText(_)
ErrorText(err) ==
    IF err = Nil THEN ""
    ELSE LET h == Head(err)
             rest == Tail(err)
         IN  CASE h.t = "connect" ->
                    IF rest = Nil THEN CodeNames[h.code]
                    ELSE CodeNames[h.code] \o ": " \o ErrorText(rest)
               [] h.t = "wrap" -> h.text \o ": " \o ErrorText(rest)
               [] OTHER -> h.text

\* errors.Is(err, target) for a sentinel target
Is(err, t) == \E i \in 1..Len(err) : err[i].t = t

\* errors.As(err, &connectErr): the first *connect.Error of the chain, or Nil
AsConnectError(err) ==
    LET at == {i \in 1..Len(err) : err[i].t = "connect"}
    IN  IF at = {} THEN Nil
        ELSE SubSeq(err, CHOOSE i \in at : \A j \in at : i <= j, Len(err))

-----------------------------------------------------------------------------
(* errors.go *)

\* a *loggableError: where it lives (0 is the nil pointer) and the
\* *connect.Error it embeds
NilLoggable == [addr |-> 0, Error |-> Nil]

AddrCanceled == 1
AddrDeadline == 2

InitErrCanceled ==
    [addr |-> AddrCanceled, Error |-> NewError(CodeCanceled, ErrorsNew("request canceled"))]

InitErrDeadline ==
    [addr |-> AddrDeadline,
     Error |-> NewError(CodeDeadlineExceeded, ErrorsNew("request deadline exceeded"))]

\* connect.Error.Code and connect.Error.Message of a loggableError
Code(e) == e.Error[1].code

Message(e) == ErrorText(Tail(e.Error))

\* a newly allocated loggableError
Allocated(connectErr) == [addr |-> AddrDeadline + allocs + 1, Error |-> connectErr]

newLoggableErrorInnermost(err) ==
    IF err = Nil THEN NilLoggable
    ELSE IF AsConnectError(err) # Nil THEN Allocated(AsConnectError(err))
    ELSE IF Is(err, "canceled") THEN errCanceled
    ELSE IF Is(err, "deadline") \/ Is(err, "osdeadline") THEN errDeadline
    ELSE Allocated(NewError(CodeUnknown, <<err[Len(err)]>>))

newLoggableErrorContextFirst(err) ==
    IF err = Nil THEN NilLoggable
    ELSE IF Is(err, "canceled") THEN errCanceled
    ELSE IF Is(err, "deadline") \/ Is(err, "osdeadline") THEN errDeadline
    ELSE IF AsConnectError(err) # Nil THEN Allocated(AsConnectError(err))
    ELSE Allocated(NewError(CodeUnknown, err))

newLoggableErrorNoReuse(err) ==
    IF err = Nil THEN NilLoggable
    ELSE IF AsConnectError(err) # Nil THEN Allocated(AsConnectError(err))
    ELSE IF Is(err, "canceled") THEN Allocated(errCanceled.Error)
    ELSE IF Is(err, "deadline") THEN errDeadline
    ELSE IF Is(err, "osdeadline")
         THEN Allocated(NewError(CodeDeadlineExceeded, ErrorsNew("request deadline exceeded")))
    ELSE Allocated(NewError(CodeUnknown, err))

newLoggableError(err) ==
    IF err = Nil THEN NilLoggable
    ELSE IF AsConnectError(err) # Nil THEN Allocated(AsConnectError(err))
    ELSE IF Is(err, "canceled") THEN errCanceled
    ELSE IF Is(err, "deadline") \/ Is(err, "osdeadline") THEN errDeadline
    ELSE Allocated(NewError(CodeUnknown, err))

\* connect.Error.Unwrap: the underlying error
Unwrap(connectErr) == Tail(connectErr)

\* errors.As(err, &logValuer), then logValuer.LogValue(): the value of the first
\* slog.LogValuer of the chain, or NoLogValue
AsLogValuer(err) ==
    LET at == {i \in 1..Len(err) : err[i].lv.kind # "none"}
    IN  IF at = {} THEN NoLogValue
        ELSE err[CHOOSE i \in at : \A j \in at : i <= j].lv

LogValueNested(e) ==
    IF e.addr = NilLoggable.addr THEN <<>>
    ELSE LET attrs == <<<<"code", CodeNames[Code(e)]>>, <<"message", Message(e)>>>>
             origErr == IF Unwrap(e.Error) = Nil THEN e.Error ELSE Unwrap(e.Error)
             logValue == AsLogValuer(origErr)
         IN  IF logValue.kind = "none" THEN attrs
             ELSE attrs \o <<<<"details", logValue>>>>

LogValueCodeAndMessage(e) ==
    IF e.addr = NilLoggable.addr THEN <<>>
    ELSE <<<<"code", CodeNames[Code(e)]>>, <<"message", Message(e)>>>>

\* loggableError.LogValue: the attributes of the group it returns (none for the
\* nil pointer)
LogValue(e) ==
    IF e.addr = NilLoggable.addr THEN <<>>
    ELSE LET attrs == <<<<"code", CodeNames[Code(e)]>>, <<"message", Message(e)>>>>
             origErr == IF Unwrap(e.Error) = Nil THEN e.Error ELSE Unwrap(e.Error)
             logValue == AsLogValuer(origErr)
         IN  IF logValue.kind = "none" THEN attrs
             ELSE IF logValue.kind = "Group" THEN attrs \o logValue.group
             ELSE attrs \o <<<<"details", logValue>>>>

\* the allocation counter after classifying err
AllocsAfter(result) == IF result.addr > AddrDeadline THEN allocs + 1 ELSE allocs

-----------------------------------------------------------------------------
(* slog: a logging call reaches the handler only when its level is enabled *)

Enabled(lg, level) == ~lg.discard /\ level >= lg.min

\* one call of logger.Debug/Info/Warn/Error on a logger built by With(base...)
LogCall(lg, base, level, msg, attrs) ==
    <<[level |-> level, msg |-> msg, base |-> base, attrs |-> attrs,
       handled |-> Enabled(lg, level)]>>

\* the records the handler received
Records(calls) == SelectSeq(calls, LAMBDA c : c.handled)

\* the value of attribute key of a logging call
HasAttr(c, key) == \E i \in 1..Len(c.attrs) : c.attrs[i][1] = key

Attr(c, key) == c.attrs[CHOOSE i \in 1..Len(c.attrs) : c.attrs[i][1] = key][2]

-----------------------------------------------------------------------------
(* interceptor.go *)

\* payloads: what req.Any(), res.Any() and a stream message can be
Payload(kind, n) == [kind |-> kind, n |-> n]

calculateSize(payload) ==
    CASE payload.kind = "nil" -> 0
      [] payload.kind \in {"proto", "bytes", "string", "raw", "sizer"} -> payload.n
      [] OTHER -> -1

Slash == <<"/">>

\* strings.TrimPrefix
TrimPrefix(s, prefix) ==
    IF Len(s) >= Len(prefix) /\ SubSeq(s, 1, Len(prefix)) = prefix
    THEN SubSeq(s, Len(prefix) + 1, Len(s))
    ELSE s

initRequestLoggerLastSeparator(procedure, peer) ==
    LET proc == TrimPrefix(procedure, Slash)
        at == {i \in 0..(Len(proc) - 1) : proc[i + 1] = "/"}
        idx == IF at = {} THEN -1 ELSE CHOOSE i \in at : \A j \in at : j <= i
    IN  IF idx < 0 THEN [panic |-> TRUE, fault |-> "slice bounds out of range", attrs |-> <<>>]
        ELSE IF logger.nil
        THEN [panic |-> TRUE, fault |-> "nil pointer dereference", attrs |-> <<>>]
        ELSE [panic |-> FALSE, fault |-> "",
              attrs |-> <<<<"service", SubSeq(proc, 1, idx)>>,
                          <<"method", SubSeq(proc, idx + 2, Len(proc))>>,
                          <<"protocol", peer.protocol>>,
                          <<"addr", peer.addr>>>>
                        \o (IF contextLogFn.nil THEN <<>> ELSE contextLogFn.attrs)]

\* initRequestLogger: the attributes of the request logger; slicing with the
\* index -1 of a missing separator panics, and so does With on a nil logger
initRequestLogger(procedure, peer) ==
    LET proc == TrimPrefix(procedure, Slash)
        idx == Index(proc, Slash)
    IN  IF idx < 0 THEN [panic |-> TRUE, fault |-> "slice bounds out of range", attrs |-> <<>>]
        ELSE IF logger.nil
        THEN [panic |-> TRUE, fault |-> "nil pointer dereference", attrs |-> <<>>]
        ELSE [panic |-> FALSE, fault |-> "",
              attrs |-> <<<<"service", SubSeq(proc, 1, idx)>>,
                          <<"method", SubSeq(proc, idx + 2, Len(proc))>>,
                          <<"protocol", peer.protocol>>,
                          <<"addr", peer.addr>>>>
                        \o (IF contextLogFn.nil THEN <<>> ELSE contextLogFn.attrs)]

FailureLevelInclusive(code) == IF code <= CodeInternal THEN LevelWarn ELSE LevelError

\* the level of a failure summary
FailureLevel(code) == IF code < CodeInternal THEN LevelWarn ELSE LevelError

UnaryStartLogUnconditional(base, r) ==
    LogCall(logger, base, LevelDebug, "request started",
            <<<<"request", r.payload>>,
              <<"headers", redactHeadersMap(r.header, redactHeaders)>>>>)

\* WrapUnary, before next is invoked: the debug record of the request
UnaryStartLog(base, r) ==
    IF Enabled(logger, LevelDebug)
    THEN LogCall(logger, base, LevelDebug, "request started",
                 <<<<"request", r.payload>>,
                   <<"headers", redactHeadersMap(r.header, redactHeaders)>>>>)
    ELSE <<>>

UnaryFinishLogResponseSize(base, r, res, err, duration) ==
    LET reqSize == calculateSize(r.payload)
        resSize == calculateSize(res.payload)
        logAttrs == <<<<"duration", duration>>>>
                    \o (IF reqSize >= 0 THEN <<<<"request_size", reqSize>>>> ELSE <<>>)
                    \o (IF ~res.nil /\ resSize >= 0
                        THEN <<<<"response_size", resSize>>>> ELSE <<>>)
    IN  IF err # Nil
        THEN LET connErr == newLoggableError(err)
             IN  LogCall(logger, base, FailureLevel(Code(connErr)), "request failed",
                         logAttrs \o <<<<"error", connErr>>>>)
        ELSE (IF Enabled(logger, LevelDebug)
              THEN LogCall(logger, base, LevelDebug, "response completed",
                           <<<<"response", res.payload>>,
                             <<"headers", redactHeadersMap(res.header, redactHeaders)>>>>)
              ELSE <<>>)
             \o LogCall(logger, base, LevelInfo, "request completed", logAttrs)

UnaryFinishLogSuccessOnly(base, r, res, err, duration) ==
    LET reqSize == calculateSize(r.payload)
        resSize == calculateSize(res.payload)
        logAttrs == <<<<"duration", duration>>>>
                    \o (IF reqSize >= 0 THEN <<<<"request_size", reqSize>>>> ELSE <<>>)
    IN  IF err # Nil THEN <<>>
        ELSE LogCall(logger, base, LevelInfo, "request completed",
                     logAttrs \o (IF resSize >= 0
                                  THEN <<<<"response_size", resSize>>>> ELSE <<>>))

\* WrapUnary, after next has returned (res, err): the records of the outcome
UnaryFinishLog(base, r, res, err, duration) ==
    LET reqSize == calculateSize(r.payload)
        logAttrs == <<<<"duration", duration>>>>
                    \o (IF reqSize >= 0 THEN <<<<"request_size", reqSize>>>> ELSE <<>>)
    IN  IF err # Nil
        THEN LET connErr == newLoggableError(err)
             IN  LogCall(logger, base, FailureLevel(Code(connErr)), "request failed",
                         logAttrs \o <<<<"error", connErr>>>>)
        ELSE LET resSize == calculateSize(res.payload)
             IN  (IF Enabled(logger, LevelDebug)
                  THEN LogCall(logger, base, LevelDebug, "response completed",
                               <<<<"response", res.payload>>,
                                 <<"headers", redactHeadersMap(res.header, redactHeaders)>>>>)
                  ELSE <<>>)
                 \o LogCall(logger, base, LevelInfo, "request completed",
                            logAttrs \o (IF resSize >= 0
                                         THEN <<<<"response_size", resSize>>>> ELSE <<>>))

WrapUnaryReturnClassified(res, err) ==
    [res |-> res, err |-> IF err = Nil THEN Nil ELSE newLoggableError(err).Error]

\* WrapUnary: return res, err
WrapUnaryReturn(res, err) == [res |-> res, err |-> err]

\* WrapStreamingHandler, before next is invoked: the debug record of the stream
StreamStartLog(base, c) ==
    IF Enabled(logger, LevelDebug)
    THEN LogCall(logger, base, LevelDebug, "stream started",
                 <<<<"headers", redactHeadersMap(c.header, redactHeaders)>>>>)
    ELSE <<>>

StreamFailedEveryError(err) == err # Nil

\* WrapStreamingHandler: whether the handler's error is logged as a failure
StreamFailed(err) == err # Nil /\ ~Is(err, "eof")

\* WrapStreamingHandler, after next has returned err: the summary record
StreamFinishLog(base, wrapped, err, duration) ==
    LET logAttrs == <<<<"messages", [sent |-> wrapped.sentCount,
                                     received |-> wrapped.receivedCount]>>,
                      <<"duration", duration>>>>
    IN  IF StreamFailed(err)
        THEN LET connErr == newLoggableError(err)
             IN  LogCall(logger, base, FailureLevel(Code(connErr)), "stream failed",
                         logAttrs \o <<<<"error", connErr>>>>)
        ELSE LogCall(logger, base, LevelInfo, "stream completed", logAttrs)

\* WrapStreamingHandler: return err
WrapStreamingHandlerReturn(err) == [res |-> "none", err |-> err]

WrapStreamingClientCounting(produced) ==
    [res |-> [produced EXCEPT !.counting = TRUE], err |-> Nil]

\* WrapStreamingClient: return next(ctx, spec)
WrapStreamingClient(produced) == [res |-> produced, err |-> Nil]

-----------------------------------------------------------------------------
(* stream.go *)

newLoggedStreamConn(lg) ==
    [sentCount |-> 0, receivedCount |-> 0, debugEnabled |-> Enabled(lg, LevelDebug)]

SendLogRechecks(base, wrapped, msg) ==
    IF Enabled(logger, LevelDebug)
    THEN LogCall(logger, base, LevelDebug, "stream message sent",
                 <<<<"number", wrapped.sentCount>>,
                   <<"size", calculateSize(msg)>>,
                   <<"response", msg>>>>)
    ELSE <<>>

\* Send, after the underlying Send has returned nil
SendLog(base, wrapped, msg) ==
    IF wrapped.debugEnabled
    THEN LogCall(logger, base, LevelDebug, "stream message sent",
                 <<<<"number", wrapped.sentCount>>,
                   <<"size", calculateSize(msg)>>,
                   <<"response", msg>>>>)
    ELSE <<>>

\* Receive, after the underlying Receive has returned nil
ReceiveLog(base, wrapped, msg) ==
    IF wrapped.debugEnabled
    THEN LogCall(logger, base, LevelDebug, "stream message received",
                 <<<<"number", wrapped.receivedCount>>,
                   <<"size", calculateSize(msg)>>,
                   <<"receive", msg>>>>)
    ELSE <<>>

-----------------------------------------------------------------------------
(* The inputs: header mappings, requests, handler outcomes *)

kAuthorization == <<"A","u","t","h","o","r","i","z","a","t","i","o","n">>
kAuthorizations == kAuthorization \o <<"s">>
kXMyToken == <<"X","-","M","y","-","T","o","k","e","n">>
kXSECRET == <<"X","-","S","E","C","R","E","T">>
kDbPassword == <<"d","b","-","p","a","s","s","w","o","r","d">>
kContentType == <<"C","o","n","t","e","n","t","-","T","y","p","e">>
kXApiKey == <<"X","-","A","p","i","-","K","e","y">>

HeaderKeys == {kAuthorization, kAuthorizations, kXMyToken, kXSECRET, kDbPassword,
               kContentType, kXApiKey}

HeaderValues == {<<"v1">>, <<"v1", "v2">>, <<>>}

\* every mapping of at most n of the keys
HeaderMaps(n) ==
    UNION {[K -> HeaderValues] : K \in {K \in SUBSET HeaderKeys : Cardinality(K) <= n}}

\* the lists WithRedactHeaders is given
RedactLists == {<<>>,
                <<ToLower(kXApiKey)>>,
                <<[i \in 1..Len(kContentType) |-> ToUpperChar(kContentType[i])],
                  kXApiKey>>}

hNone == [k \in {} |-> <<>>]
hAuth == (kAuthorization :> <<"Bearer abc">>) @@ (kContentType :> <<"json">>)
hKeys == (kXApiKey :> <<"k1">>) @@ (kXMyToken :> <<"t1", "t2">>)

CallHeaders == {hNone, hAuth, hKeys}

pPing == <<"/","s","v","c","/","P","i","n","g">>
pNoSeparator == <<"/","s","v","c">>

pNested == <<"/","a","/","v","1","/","G","e","t">>

Procedures == {pPing, pNoSeparator}

UnaryProcedures == Procedures \cup {pNested}

ThePeer == [protocol |-> "connect", addr |-> "10.0.0.1:5000"]

ReqPayloads == {Payload("proto", 3), Payload("other", 0)}

UnaryRequests ==
    [procedure : UnaryProcedures, peer : {ThePeer}, header : CallHeaders, payload : ReqPayloads]

MsgTypes == {Payload("proto", 4), Payload("other", 0)}

StreamConns ==
    [procedure : Procedures, peer : {ThePeer}, header : CallHeaders, payload : MsgTypes]

NoResponse == [nil |-> TRUE, header |-> hNone, payload |-> Payload("nil", 0)]

Response(header, payload) == [nil |-> FALSE, header |-> header, payload |-> payload]

Responses == {Response(hNone, Payload("proto", 5)), Response(hKeys, Payload("other", 0))}

errNotFound == NewError(CodeNotFound, ErrorsNew("resource not found"))

HandlerErrors ==
    {ErrorsNew("boom"), ctxCanceled, ctxDeadlineExceeded, osErrDeadlineExceeded, ioEOF,
     Errorf("rpc", ctxCanceled), NewError(CodeAborted, ctxCanceled)}
    \cup {NewError(c, ErrorsNew("resource not found")) : c \in AllCodes}

\* what a unary handler may return: a response, an error, or an error with a response
UnaryOutcomes ==
    {<<res, Nil>> : res \in Responses}
    \cup {<<NoResponse, err>> : err \in HandlerErrors}
    \cup {<<Response(hNone, Payload("proto", 5)), err>> : err \in HandlerErrors}

\* what a streaming handler may return
StreamOutcomes ==
    {Nil, ioEOF, Errorf("recv", ioEOF), NewError(CodeInternal, ioEOF), ErrorsNew("boom"),
     errNotFound, NewError(CodeInternal, ErrorsNew("db down")),
     NewError(CodeInternal + 1, ErrorsNew("try later"))}

\* the connect.Spec of a client-side streaming call, and the connections the
\* wrapped function may produce for it
ClientSpecs == [procedure : Procedures]

ClientConns == {[id |-> i, counting |-> FALSE] : i \in 1..2}

errBrokenPipe == ErrorsNew("broken pipe")

\* what the underlying connection may return
SendResults == {Nil, errBrokenPipe}
ReceiveResults == {Nil, ioEOF}

traceAttrs == <<<<"trace_id", "123">>>>

\* the options New is called with, applied to the defaults
OptionSets ==
    {WithLogger(l, DefaultOptions) :
        l \in {NilLogger, Logger(LevelHandler(LevelDebug)), Logger(LevelHandler(LevelWarn)),
               Logger(LevelHandler(LevelError))}}
    \cup {DefaultOptions,
          WithContextLogFn(ContextFn(traceAttrs),
              WithRedactHeaders(<<ToLower(kXApiKey)>>,
                  WithLogger(Logger(LevelHandler(LevelDebug)), DefaultOptions)))}

\* a header name is sensitive: it equals a configured name or "authorization",
\* or contains "token", "secret" or "password", all without regard to case
Sensitive(key, list) ==
    \/ \E i \in 1..Len(list) : ToLower(key) = ToLower(list[i])
    \/ ToLower(key) = sAuthorization
    \/ \E w \in {sToken, sSecret, sPassword} : Contains(ToLower(key), w)

\* the twin of a header mapping: every sensitive value replaced by alt
Vary(headers, list, alt) ==
    [k \in DOMAIN headers |-> IF Sensitive(k, list) THEN alt ELSE headers[k]]

AltValues == {<<"other">>, <<"x", "y">>}

-----------------------------------------------------------------------------
(* The interceptor serving one call *)

NoCall == [kind |-> "none"]

IdleOp == [st |-> "idle", under |-> Nil, ret |-> Nil]

NoConn == [sentCount |-> 0, receivedCount |-> 0, debugEnabled |-> FALSE]

NoReturn == [res |-> "none", err |-> Nil]

InitObs == [invoked |-> 0, passed |-> NoCall, handlerRet |-> NoReturn, ret |-> NoReturn,
            okSends |-> 0, okRecvs |-> 0, atInvoke |-> 0, took |-> 0,
            levelAtWrap |-> LevelDebug]

\* the interceptor i was constructed; the package variables are initialised
Constructed(i) ==
    /\ logger = i.logger
    /\ redactHeaders = i.redactHeaders
    /\ contextLogFn = i.contextLogFn
    /\ errCanceled = InitErrCanceled
    /\ errDeadline = InitErrDeadline
    /\ allocs = 0

\* the two constructors of the package
Constructors(opts) == {New(opts), NewLoggingInterceptor(opts)}

Init ==
    /\ \E opts \in OptionSets : \E i \in Constructors(opts) : Constructed(i)
    /\ pc = "idle"
    /\ call = NoCall
    /\ conn = NoConn
    /\ sendOp = IdleOp
    /\ recvOp = IdleOp
    /\ obs = InitObs
    /\ log = <<>>
    /\ log2 = <<>>
    /\ clock = 0
    /\ hdrIn = hNone
    /\ hdrOut = hNone
    /\ classified = <<>>
    /\ served = <<>>

config == <<logger, redactHeaders, contextLogFn, errCanceled, errDeadline>>
aside == <<hdrIn, hdrOut, classified, served>>

\* the call faults before the handler is invoked
Panic(kind, r, fault) ==
    /\ pc' = "panicked"
    /\ call' = [kind |-> kind, req |-> r, req2 |-> r, base |-> <<>>, start |-> clock,
                fault |-> fault]
    /\ UNCHANGED <<conn, sendOp, recvOp, obs, log, log2, clock, allocs>>

\* WrapUnary up to the invocation of next, e ticks after start was taken
UnaryStart(r, alt, e) ==
    LET lg == initRequestLogger(r.procedure, r.peer)
        r2 == [r EXCEPT !.header = Vary(r.header, redactHeaders, alt)]
    IN  /\ pc = "idle"
        /\ UNCHANGED <<config, aside>>
        /\ IF lg.panic THEN Panic("unary", r, lg.fault)
           ELSE /\ pc' = "handler"
                /\ call' = [kind |-> "unary", req |-> r, req2 |-> r2,
                            base |-> lg.attrs, start |-> clock]
                /\ log' = log \o UnaryStartLog(lg.attrs, r)
                /\ log2' = log2 \o UnaryStartLog(lg.attrs, r2)
                /\ clock' = clock + e
                /\ obs' = [obs EXCEPT !.invoked = @ + 1, !.passed = r,
                                      !.atInvoke = Len(log')]
                /\ UNCHANGED <<conn, sendOp, recvOp, allocs>>

\* WrapUnary from the return of next, which took d ticks, to its own return
UnaryFinish(res, err, alt, d) ==
    LET res2 == [res EXCEPT !.header = Vary(res.header, redactHeaders, alt)]
    IN  /\ pc = "handler"
        /\ call.kind = "unary"
        /\ UNCHANGED <<config, aside>>
        /\ clock' = clock + d
        /\ log' = log \o UnaryFinishLog(call.base, call.req, res, err, clock' - call.start)
        /\ log2' = log2 \o UnaryFinishLog(call.base, call.req2, res2, err, clock' - call.start)
        /\ allocs' = IF err # Nil THEN AllocsAfter(newLoggableError(err)) ELSE allocs
        /\ obs' = [obs EXCEPT !.handlerRet = [res |-> res, err |-> err],
                              !.ret = WrapUnaryReturn(res, err),
                              !.took = d]
        /\ pc' = "done"
        /\ UNCHANGED <<call, conn, sendOp, recvOp>>

\* WrapStreamingHandler up to the invocation of next, e ticks after start was taken
StreamStart(c, alt, e) ==
    LET lg == initRequestLogger(c.procedure, c.peer)
        c2 == [c EXCEPT !.header = Vary(c.header, redactHeaders, alt)]
    IN  /\ pc = "idle"
        /\ UNCHANGED <<config, aside>>
        /\ IF lg.panic THEN Panic("stream", c, lg.fault)
           ELSE /\ pc' = "handler"
                /\ call' = [kind |-> "stream", req |-> c, req2 |-> c2,
                            base |-> lg.attrs, start |-> clock]
                /\ log' = log \o StreamStartLog(lg.attrs, c)
                /\ log2' = log2 \o StreamStartLog(lg.attrs, c2)
                /\ conn' = newLoggedStreamConn(logger)
                /\ clock' = clock + e
                /\ obs' = [obs EXCEPT !.invoked = @ + 1, !.passed = c,
                                      !.atInvoke = Len(log'),
                                      !.levelAtWrap = logger.min]
                /\ UNCHANGED <<sendOp, recvOp, allocs>>

InStream == pc = "handler" /\ call.kind = "stream"

\* Send: the handler calls it and the underlying Send returns result
SendCall(result) ==
    /\ InStream
    /\ sendOp.st = "idle"
    /\ recvOp.st = "idle"
    /\ result = Nil => obs.okSends < MaxSend
    /\ sendOp' = [st |-> "called", under |-> result, ret |-> Nil]
    /\ obs' = [obs EXCEPT !.okSends = IF result = Nil THEN @ + 1 ELSE @]
    /\ UNCHANGED <<config, aside, pc, call, conn, recvOp, log, log2, clock, allocs>>

SendCountsFirst ==
    LET wrapped == [conn EXCEPT !.sentCount = @ + 1]
    IN  /\ InStream
        /\ sendOp.st = "called"
        /\ conn' = wrapped
        /\ IF sendOp.under # Nil
           THEN /\ sendOp' = [sendOp EXCEPT !.st = "idle", !.ret = sendOp.under]
                /\ UNCHANGED <<log, log2>>
           ELSE /\ log' = log \o SendLog(call.base, wrapped, call.req.payload)
                /\ log2' = log2 \o SendLog(call.base, wrapped, call.req2.payload)
                /\ sendOp' = [sendOp EXCEPT !.st = "idle", !.ret = Nil]
        /\ UNCHANGED <<config, aside, pc, call, recvOp, obs, clock, allocs>>

\* Send, from the return of the underlying Send to its own return
SendReturn ==
    /\ InStream
    /\ sendOp.st = "called"
    /\ IF sendOp.under # Nil
       THEN /\ sendOp' = [sendOp EXCEPT !.st = "idle", !.ret = sendOp.under]
            /\ UNCHANGED <<conn, log, log2>>
       ELSE LET wrapped == [conn EXCEPT !.sentCount = @ + 1]
            IN  /\ conn' = wrapped
                /\ log' = log \o SendLog(call.base, wrapped, call.req.payload)
                /\ log2' = log2 \o SendLog(call.base, wrapped, call.req2.payload)
                /\ sendOp' = [sendOp EXCEPT !.st = "idle", !.ret = Nil]
    /\ UNCHANGED <<config, aside, pc, call, recvOp, obs, clock, allocs>>

\* Receive: the handler calls it and the underlying Receive returns result
ReceiveCall(result) ==
    /\ InStream
    /\ recvOp.st = "idle"
    /\ sendOp.st = "idle"
    /\ result = Nil => obs.okRecvs < MaxRecv
    /\ recvOp' = [st |-> "called", under |-> result, ret |-> Nil]
    /\ obs' = [obs EXCEPT !.okRecvs = IF result = Nil THEN @ + 1 ELSE @]
    /\ UNCHANGED <<config, aside, pc, call, conn, sendOp, log, log2, clock, allocs>>

\* Receive, from the return of the underlying Receive to its own return
ReceiveReturn ==
    /\ InStream
    /\ recvOp.st = "called"
    /\ IF recvOp.under # Nil
       THEN /\ recvOp' = [recvOp EXCEPT !.st = "idle", !.ret = recvOp.under]
            /\ UNCHANGED <<conn, log, log2>>
       ELSE LET wrapped == [conn EXCEPT !.receivedCount = @ + 1]
            IN  /\ conn' = wrapped
                /\ log' = log \o ReceiveLog(call.base, wrapped, call.req.payload)
                /\ log2' = log2 \o ReceiveLog(call.base, wrapped, call.req2.payload)
                /\ recvOp' = [recvOp EXCEPT !.st = "idle", !.ret = Nil]
    /\ UNCHANGED <<config, aside, pc, call, sendOp, obs, clock, allocs>>

\* WrapStreamingHandler from the return of next, which took d ticks, to its own return
StreamFinish(err, d) ==
    /\ InStream
    /\ sendOp.st = "idle"
    /\ recvOp.st = "idle"
    /\ UNCHANGED <<config, aside>>
    /\ clock' = clock + d
    /\ log' = log \o StreamFinishLog(call.base, conn, err, clock' - call.start)
    /\ log2' = log2 \o StreamFinishLog(call.base, conn, err, clock' - call.start)
    /\ allocs' = IF StreamFailed(err) THEN AllocsAfter(newLoggableError(err)) ELSE allocs
    /\ obs' = [obs EXCEPT !.handlerRet = [res |-> "none", err |-> err],
                          !.ret = WrapStreamingHandlerReturn(err),
                          !.took = d]
    /\ pc' = "done"
    /\ UNCHANGED <<call, conn, sendOp, recvOp>>

\* the function WrapStreamingClient returns, called with spec: next produces
\* the connection
ClientStream(spec, produced) ==
    /\ pc = "idle"
    /\ ~logger.nil
    /\ pc' = "done"
    /\ call' = [kind |-> "client", req |-> spec, req2 |-> spec, base |-> <<>>,
                start |-> clock]
    /\ obs' = [obs EXCEPT !.invoked = @ + 1, !.passed = spec,
                          !.handlerRet = [res |-> produced, err |-> Nil],
                          !.ret = WrapStreamingClient(produced)]
    /\ UNCHANGED <<config, aside, conn, sendOp, recvOp, log, log2, clock, allocs>>

Next ==
    \/ \E r \in UnaryRequests, alt \in AltValues, e \in 0..MaxElapsed : UnaryStart(r, alt, e)
    \/ \E o \in UnaryOutcomes, alt \in AltValues, d \in 0..MaxElapsed :
          UnaryFinish(o[1], o[2], alt, d)
    \/ \E c \in StreamConns, alt \in AltValues : StreamStart(c, alt, 0)
    \/ \E result \in SendResults : SendCall(result)
    \/ SendReturn
    \/ \E result \in ReceiveResults : ReceiveCall(result)
    \/ ReceiveReturn
    \/ \E err \in StreamOutcomes, d \in 0..MaxElapsed : StreamFinish(err, d)
    \/ \E spec \in ClientSpecs, produced \in ClientConns : ClientStream(spec, produced)

Spec == Init /\ [][Next]_vars

-----------------------------------------------------------------------------
(* A streaming call over a sink whose level is changed while the call runs *)

VerbosityLevels == {LevelDebug, LevelInfo}

VerbosityConns ==
    [procedure : {pPing}, peer : {ThePeer}, header : {hNone}, payload : {Payload("proto", 4)}]

InitVerbosity ==
    /\ \E l \in VerbosityLevels :
          Constructed(New(WithLogger(Logger(LevelHandler(l)), DefaultOptions)))
    /\ pc = "idle"
    /\ call = NoCall
    /\ conn = NoConn
    /\ sendOp = IdleOp
    /\ recvOp = IdleOp
    /\ obs = InitObs
    /\ log = <<>>
    /\ log2 = <<>>
    /\ clock = 0
    /\ hdrIn = hNone
    /\ hdrOut = hNone
    /\ classified = <<>>
    /\ served = <<>>

\* the owner of the sink sets its level (a slog.LevelVar behind the handler)
SetLevel(l) ==
    /\ pc \in {"idle", "handler"}
    /\ ~logger.discard
    /\ logger.min # l
    /\ logger' = [logger EXCEPT !.min = l]
    /\ UNCHANGED <<redactHeaders, contextLogFn, errCanceled, errDeadline, aside, pc, call,
                   conn, sendOp, recvOp, obs, log, log2, clock, allocs>>

NextVerbosity ==
    \/ \E c \in VerbosityConns : StreamStart(c, <<"other">>, 0)
    \/ \E result \in SendResults : SendCall(result)
    \/ SendReturn
    \/ \E result \in ReceiveResults : ReceiveCall(result)
    \/ ReceiveReturn
    \/ \E err \in {Nil, errNotFound} : StreamFinish(err, 0)
    \/ \E l \in VerbosityLevels : SetLevel(l)

SpecVerbosity == InitVerbosity /\ [][NextVerbosity]_vars

-----------------------------------------------------------------------------
(* A streaming call whose handler sends in one task and receives in another: *)
(* Send and Receive overlap, and c.sentCount++ and c.receivedCount++ are each *)
(* a load of the field followed by a store to it                             *)

DuplexConns ==
    [procedure : {pPing}, peer : {ThePeer}, header : {hNone}, payload : MsgTypes]

InitDuplex ==
    /\ \E l \in {LevelDebug, LevelInfo} :
          Constructed(New(WithLogger(Logger(LevelHandler(l)), DefaultOptions)))
    /\ pc = "idle"
    /\ call = NoCall
    /\ conn = NoConn
    /\ sendOp = IdleOp
    /\ recvOp = IdleOp
    /\ obs = InitObs
    /\ log = <<>>
    /\ log2 = <<>>
    /\ clock = 0
    /\ hdrIn = hNone
    /\ hdrOut = hNone
    /\ classified = <<>>
    /\ served = <<>>

\* Send: the sending task calls it and the underlying Send returns result
DuplexSendCall(result) ==
    /\ InStream
    /\ sendOp.st = "idle"
    /\ result = Nil => obs.okSends < MaxSend
    /\ sendOp' = [st |-> "called", under |-> result, ret |-> Nil]
    /\ obs' = [obs EXCEPT !.okSends = IF result = Nil THEN @ + 1 ELSE @]
    /\ UNCHANGED <<config, aside, pc, call, conn, recvOp, log, log2, clock, allocs>>

\* Send: the error is returned, or c.sentCount is loaded
DuplexSendLoad ==
    /\ InStream
    /\ sendOp.st = "called"
    /\ IF sendOp.under # Nil
       THEN sendOp' = [st |-> "idle", under |-> sendOp.under, ret |-> sendOp.under]
       ELSE sendOp' = [st |-> "loaded", under |-> Nil, ret |-> Nil, reg |-> conn.sentCount]
    /\ UNCHANGED <<config, aside, pc, call, conn, recvOp, obs, log, log2, clock, allocs>>

\* Send: the incremented value is stored, the debug record logged, nil returned
DuplexSendStore ==
    LET wrapped == [conn EXCEPT !.sentCount = sendOp.reg + 1]
    IN  /\ InStream
        /\ sendOp.st = "loaded"
        /\ conn' = wrapped
        /\ log' = log \o SendLog(call.base, wrapped, call.req.payload)
        /\ log2' = log2 \o SendLog(call.base, wrapped, call.req2.payload)
        /\ sendOp' = [st |-> "idle", under |-> Nil, ret |-> Nil]
        /\ UNCHANGED <<config, aside, pc, call, recvOp, obs, clock, allocs>>

\* Receive: the receiving task calls it and the underlying Receive returns result
DuplexReceiveCall(result) ==
    /\ InStream
    /\ recvOp.st = "idle"
    /\ result = Nil => obs.okRecvs < MaxRecv
    /\ recvOp' = [st |-> "called", under |-> result, ret |-> Nil]
    /\ obs' = [obs EXCEPT !.okRecvs = IF result = Nil THEN @ + 1 ELSE @]
    /\ UNCHANGED <<config, aside, pc, call, conn, sendOp, log, log2, clock, allocs>>

\* Receive: the error is returned, or c.receivedCount is loaded
DuplexReceiveLoad ==
    /\ InStream
    /\ recvOp.st = "called"
    /\ IF recvOp.under # Nil
       THEN recvOp' = [st |-> "idle", under |-> recvOp.under, ret |-> recvOp.under]
       ELSE recvOp' = [st |-> "loaded", under |-> Nil, ret |-> Nil,
                       reg |-> conn.receivedCount]
    /\ UNCHANGED <<config, aside, pc, call, conn, sendOp, obs, log, log2, clock, allocs>>

DuplexReceiveStoreSent ==
    LET wrapped == [conn EXCEPT !.sentCount = recvOp.reg + 1]
    IN  /\ InStream
        /\ recvOp.st = "loaded"
        /\ conn' = wrapped
        /\ log' = log \o ReceiveLog(call.base, wrapped, call.req.payload)
        /\ log2' = log2 \o ReceiveLog(call.base, wrapped, call.req2.payload)
        /\ recvOp' = [st |-> "idle", under |-> Nil, ret |-> Nil]
        /\ UNCHANGED <<config, aside, pc, call, sendOp, obs, clock, allocs>>

\* Receive: the incremented value is stored, the debug record logged, nil returned
DuplexReceiveStore ==
    LET wrapped == [conn EXCEPT !.receivedCount = recvOp.reg + 1]
    IN  /\ InStream
        /\ recvOp.st = "loaded"
        /\ conn' = wrapped
        /\ log' = log \o ReceiveLog(call.base, wrapped, call.req.payload)
        /\ log2' = log2 \o ReceiveLog(call.base, wrapped, call.req2.payload)
        /\ recvOp' = [st |-> "idle", under |-> Nil, ret |-> Nil]
        /\ UNCHANGED <<config, aside, pc, call, sendOp, obs, clock, allocs>>

\* the handler returns after its tasks have finished: StreamFinish waits for
\* both operations to be idle
NextDuplex ==
    \/ \E c \in DuplexConns : StreamStart(c, <<"other">>, 0)
    \/ \E result \in SendResults : DuplexSendCall(result)
    \/ DuplexSendLoad
    \/ DuplexSendStore
    \/ \E result \in ReceiveResults : DuplexReceiveCall(result)
    \/ DuplexReceiveLoad
    \/ DuplexReceiveStore
    \/ \E err \in {Nil, ioEOF, errNotFound} : StreamFinish(err, 0)

SpecDuplex == InitDuplex /\ [][NextDuplex]_vars

-----------------------------------------------------------------------------
(* Several calls served at the same time by one interceptor: each runs the    *)
(* wrappers on its own task, with its own locals and its own wrapped          *)
(* connection; the logger and the package variables are the same for all     *)

CallIds == 1..MaxCalls

PeerAddrs == <<"10.0.0.1:5000", "10.0.0.2:5000", "10.0.0.3:5000", "10.0.0.4:5000">>

\* the request, or the connection, of call id
RequestOf(id) ==
    [procedure |-> pPing, peer |-> [protocol |-> "connect", addr |-> PeerAddrs[id]],
     header |-> hAuth,
     payload |-> Payload("proto", 3)]

\* the locals of one call: where it is, its request logger, its wrappedConn,
\* the operation in flight on it, and what its handler saw and returned
IdleCall ==
    [pc |-> "idle", kind |-> "none", base |-> <<>>, conn |-> NoConn, op |-> "idle",
     okSends |-> 0, okRecvs |-> 0, err |-> Nil]

InitCalls ==
    /\ Constructed(New(WithLogger(Logger(LevelHandler(LevelInfo)), DefaultOptions)))
    /\ served = [id \in CallIds |-> IdleCall]
    /\ pc = "idle"
    /\ call = NoCall
    /\ conn = NoConn
    /\ sendOp = IdleOp
    /\ recvOp = IdleOp
    /\ obs = InitObs
    /\ log = <<>>
    /\ log2 = <<>>
    /\ clock = 0
    /\ hdrIn = hNone
    /\ hdrOut = hNone
    /\ classified = <<>>

single == <<pc, call, conn, sendOp, recvOp, obs, log2, clock, hdrIn, hdrOut, classified>>

\* WrapUnary of call id up to the invocation of next
CallUnaryStart(id) ==
    LET lg == initRequestLogger(RequestOf(id).procedure, RequestOf(id).peer)
    IN  /\ served[id].pc = "idle"
        /\ served' = [served EXCEPT ![id].pc = "handler", ![id].kind = "unary",
                                    ![id].base = lg.attrs]
        /\ log' = log \o UnaryStartLog(lg.attrs, RequestOf(id))
        /\ UNCHANGED <<config, single, allocs>>

\* WrapUnary of call id from the return of next to its own return
CallUnaryFinish(id, res, err) ==
    /\ served[id].pc = "handler"
    /\ served[id].kind = "unary"
    /\ log' = log \o UnaryFinishLog(served[id].base, RequestOf(id), res, err, 0)
    /\ allocs' = IF err # Nil THEN AllocsAfter(newLoggableError(err)) ELSE allocs
    /\ served' = [served EXCEPT ![id].pc = "done", ![id].err = err]
    /\ UNCHANGED <<config, single>>

\* WrapStreamingHandler of call id up to the invocation of next
CallStreamStart(id) ==
    LET lg == initRequestLogger(RequestOf(id).procedure, RequestOf(id).peer)
    IN  /\ served[id].pc = "idle"
        /\ served' = [served EXCEPT ![id].pc = "handler", ![id].kind = "stream",
                                    ![id].base = lg.attrs,
                                    ![id].conn = newLoggedStreamConn(logger)]
        /\ log' = log \o StreamStartLog(lg.attrs, RequestOf(id))
        /\ UNCHANGED <<config, single, allocs>>

\* Send on the connection of call id: the underlying Send returns nil
CallSendCall(id) ==
    /\ served[id].pc = "handler"
    /\ served[id].kind = "stream"
    /\ served[id].op = "idle"
    /\ served[id].okSends < MaxCallMsgs
    /\ served' = [served EXCEPT ![id].op = "send", ![id].okSends = @ + 1]
    /\ UNCHANGED <<config, single, log, allocs>>

CallSendReturnShared(id) ==
    LET wrapped == [served[id].conn EXCEPT !.sentCount = @ + 1]
    IN  /\ served[id].pc = "handler"
        /\ served[id].kind = "stream"
        /\ served[id].op = "send"
        /\ served' = [j \in CallIds |->
                         IF j = id THEN [served[j] EXCEPT !.op = "idle", !.conn = wrapped]
                         ELSE IF served[j].kind = "stream"
                         THEN [served[j] EXCEPT !.conn.sentCount = @ + 1]
                         ELSE served[j]]
        /\ log' = log \o SendLog(served[id].base, wrapped, RequestOf(id).payload)
        /\ UNCHANGED <<config, single, allocs>>

\* Send on the connection of call id, from the return of the underlying Send
CallSendReturn(id) ==
    LET wrapped == [served[id].conn EXCEPT !.sentCount = @ + 1]
    IN  /\ served[id].pc = "handler"
        /\ served[id].kind = "stream"
        /\ served[id].op = "send"
        /\ served' = [served EXCEPT ![id].op = "idle", ![id].conn = wrapped]
        /\ log' = log \o SendLog(served[id].base, wrapped, RequestOf(id).payload)
        /\ UNCHANGED <<config, single, allocs>>

\* Receive on the connection of call id: the underlying Receive returns nil
CallReceiveCall(id) ==
    /\ served[id].pc = "handler"
    /\ served[id].kind = "stream"
    /\ served[id].op = "idle"
    /\ served[id].okRecvs < MaxCallMsgs
    /\ served' = [served EXCEPT ![id].op = "receive", ![id].okRecvs = @ + 1]
    /\ UNCHANGED <<config, single, log, allocs>>

\* Receive on the connection of call id, from the return of the underlying Receive
CallReceiveReturn(id) ==
    LET wrapped == [served[id].conn EXCEPT !.receivedCount = @ + 1]
    IN  /\ served[id].pc = "handler"
        /\ served[id].kind = "stream"
        /\ served[id].op = "receive"
        /\ served' = [served EXCEPT ![id].op = "idle", ![id].conn = wrapped]
        /\ log' = log \o ReceiveLog(served[id].base, wrapped, RequestOf(id).payload)
        /\ UNCHANGED <<config, single, allocs>>

\* WrapStreamingHandler of call id from the return of next to its own return
CallStreamFinish(id, err) ==
    /\ served[id].pc = "handler"
    /\ served[id].kind = "stream"
    /\ served[id].op = "idle"
    /\ log' = log \o StreamFinishLog(served[id].base, served[id].conn, err, 0)
    /\ allocs' = IF StreamFailed(err) THEN AllocsAfter(newLoggableError(err)) ELSE allocs
    /\ served' = [served EXCEPT ![id].pc = "done", ![id].err = err]
    /\ UNCHANGED <<config, single>>

NextCalls ==
    \E id \in CallIds :
       \/ CallUnaryStart(id)
       \/ \E err \in {Nil, ctxCanceled} :
             CallUnaryFinish(id, Response(hNone, Payload("proto", 5)), err)
       \/ CallStreamStart(id)
       \/ CallSendCall(id)
       \/ CallSendReturn(id)
       \/ CallReceiveCall(id)
       \/ CallReceiveReturn(id)
       \/ \E err \in {ioEOF, ctxCanceled} : CallStreamFinish(id, err)

SpecCalls == InitCalls /\ [][NextCalls]_vars

-----------------------------------------------------------------------------
(* Redaction on its own: one mapping passed to redactHeadersMap *)

InitRedact ==
    /\ \E list \in RedactLists \cup {DefaultOptions.RedactHeaders} :
          Constructed(New(WithRedactHeaders(list, DefaultOptions)))
    /\ \E h \in HeaderMaps(MaxHeaders) :
          /\ hdrIn = h
          /\ call = [kind |-> "redact", header |-> h]
    /\ hdrOut = hNone
    /\ pc = "idle"
    /\ conn = NoConn
    /\ sendOp = IdleOp
    /\ recvOp = IdleOp
    /\ obs = InitObs
    /\ log = <<>>
    /\ log2 = <<>>
    /\ clock = 0
    /\ classified = <<>>
    /\ served = <<>>

\* redactHeadersMap(headers, i.redactHeaders): builds the result, reads the argument
Redact ==
    /\ pc = "idle"
    /\ call.kind = "redact"
    /\ hdrOut' = redactHeadersMap(hdrIn, redactHeaders)
    /\ pc' = "done"
    /\ UNCHANGED <<config, hdrIn, classified, call, conn, sendOp, recvOp, obs, log, log2,
                   clock, allocs, served>>

NextRedact == Redact

SpecRedact == InitRedact /\ [][NextRedact]_vars

-----------------------------------------------------------------------------
(* Classification on its own: errors passed to newLoggableError one after another *)

\* the error leaves and the chains of at most n wrappers around them
ErrorLeaves ==
    {ctxCanceled, ctxDeadlineExceeded, osErrDeadlineExceeded, ErrorsNew("boom"),
     detailedError("email", "invalid format")}

opAttrs == <<<<"op", "read">>>>

WrapWith(err) ==
    {Errorf("rpc", err), LogValuerWrap("read", GroupValue(opAttrs), err)}

RECURSIVE ErrorChains(_)
ErrorChains(n) ==
    IF n = 0 THEN ErrorLeaves
    ELSE LET inner == ErrorChains(n - 1)
         IN  inner \cup UNION {WrapWith(err) : err \in inner}

ClassifyInputs ==
    {Nil} \cup ErrorChains(MaxWrap)
    \cup {Errorf("rpc", errNotFound), Errorf("rpc", Errorf("ctx", ctxCanceled)),
          NewError(CodeAborted, ctxCanceled),
          NewError(CodeAborted, detailedError("email", "invalid format")),
          LogValuerWrap("read", GroupValue(opAttrs), errNotFound),
          NewError(CodeNotFound, Nil),
          LogValuerError("quota", StringValue("5 of 5 used")),
          LogValuerError("empty", GroupValue(<<>>)),
          Errorf("rpc", LogValuerWrap("read", GroupValue(opAttrs),
                                      detailedError("password", "too short")))}

InitClassify ==
    /\ Constructed(New(DefaultOptions))
    /\ pc = "idle"
    /\ call = [kind |-> "classify"]
    /\ classified = <<>>
    /\ served = <<>>
    /\ conn = NoConn
    /\ sendOp = IdleOp
    /\ recvOp = IdleOp
    /\ obs = InitObs
    /\ log = <<>>
    /\ log2 = <<>>
    /\ clock = 0
    /\ hdrIn = hNone
    /\ hdrOut = hNone

\* one call of newLoggableError(err)
Classify(err) ==
    LET result == newLoggableError(err)
    IN  /\ call.kind = "classify"
        /\ Len(classified) < MaxClassify
        /\ classified' = Append(classified, [input |-> err, result |-> result,
                                              form |-> LogValue(result)])
        /\ allocs' = AllocsAfter(result)
        /\ UNCHANGED <<config, pc, call, conn, sendOp, recvOp, obs, log, log2, clock,
                       hdrIn, hdrOut, served>>

NextClassify == \E err \in ClassifyInputs : Classify(err)

SpecClassify == InitClassify /\ [][NextClassify]_vars

-----------------------------------------------------------------------------
(* What the claims speak of *)

SummaryMsgs(kind) ==
    IF kind = "unary" THEN {"request completed", "request failed"}
    ELSE {"stream completed", "stream failed"}

IsSummary(c) == c.msg \in SummaryMsgs("unary") \cup SummaryMsgs("stream")

\* the summary logging calls made so far, and those of them the handler received
SummaryCalls == SelectSeq(log, IsSummary)
SummaryRecords == SelectSeq(Records(log), IsSummary)

Returned == pc = "done" /\ call.kind \in {"unary", "stream"}

\* the call took the failure path
FailurePath ==
    /\ Returned
    /\ obs.handlerRet.err # Nil
    /\ call.kind = "stream" => obs.handlerRet.err # ioEOF /\ ~Is(obs.handlerRet.err, "eof")

\* an error that carries no status code and is no cancellation or deadline error
Unrecognized(err) ==
    /\ err # Nil
    /\ AsConnectError(err) = Nil
    /\ ~Is(err, "canceled") /\ ~Is(err, "deadline") /\ ~Is(err, "osdeadline")

\* C1: the wrapper returns exactly what the handler returned (response and error
\* for a unary call, the error for a streaming call, nil and the end-of-stream
\* sentinel included), hands the handler the request it was given, and invokes
\* the handler exactly once per call: never again after it returned.
C1_Transparency ==
    /\ obs.invoked <= 1
    /\ pc = "handler" => obs.invoked = 1 /\ obs.passed = call.req
    /\ Returned => /\ obs.invoked = 1
                   /\ obs.passed = call.req
                   /\ obs.ret = obs.handlerRet
                   /\ obs.ret.err = obs.handlerRet.err

C1_Witness ==
    /\ Returned
    /\ call.kind = "unary"
    /\ obs.ret.err = ErrorsNew("boom")
    /\ ~obs.ret.res.nil
    /\ Len(Records(log)) = 2

\* C2: a call whose handler returned has made exactly one summary logging call,
\* named after the kind of call, whatever the outcome and the debug setting; none
\* is made before the handler returns; the handler behind the logger receives
\* that one record when the summary's level is enabled in it, and never more
\* than one; the debug records are other records.
C2_ExactlyOneSummary ==
    /\ ~Returned => Len(SummaryCalls) = 0
    /\ Returned =>
          /\ Len(SummaryCalls) = 1
          /\ SummaryCalls[1].msg \in SummaryMsgs(call.kind)
          /\ SummaryCalls[1] = log[Len(log)]
          /\ Len(SummaryRecords) = IF Enabled(logger, SummaryCalls[1].level) THEN 1 ELSE 0
    /\ \A i \in 1..Len(log) : log[i].level = LevelDebug => ~IsSummary(log[i])

C2_Witness ==
    /\ Returned
    /\ call.kind = "unary"
    /\ Enabled(logger, LevelDebug)
    /\ Len(Records(log)) = 3
    /\ Len(SummaryRecords) = 1

\* C3: on the failure path of a unary or streaming call the one summary is at
\* warning level when the code of the classified error it carries is below
\* internal, and at error level otherwise; the code is the handler error's own
\* status code when it has one; a not-found error gives one warn-level summary
\* with the not-found code and the original message, and no error-level record.
C3_FailureLevel ==
    FailurePath =>
        /\ Len(SummaryCalls) = 1
        /\ HasAttr(SummaryCalls[1], "error")
        /\ LET s == SummaryCalls[1]
               e == Attr(s, "error")
               err == obs.handlerRet.err
           IN  /\ s.msg \in {"request failed", "stream failed"}
               /\ Code(e) < CodeInternal => s.level = LevelWarn
               /\ Code(e) >= CodeInternal => s.level = LevelError
               /\ AsConnectError(err) # Nil => Code(e) = AsConnectError(err)[1].code
               /\ err = errNotFound =>
                     /\ s.level = LevelWarn
                     /\ Code(e) = CodeNotFound
                     /\ Message(e) = "resource not found"
                     /\ \A i \in 1..Len(log) : log[i].level # LevelError

C3_Witness ==
    /\ FailurePath
    /\ call.kind = "unary"
    /\ obs.handlerRet.err = errNotFound
    /\ Len(SummaryRecords) = 1
    /\ SummaryRecords[1].level = LevelWarn

\* C4 (as claimed): a unary call whose handler returns an error with the internal
\* code, or an unrecognized error, has one summary, at error level.
C4_InternalOrUnrecognizedAtErrorLevel ==
    (/\ FailurePath
     /\ call.kind = "unary"
     /\ LET err == obs.handlerRet.err
        IN  \/ Unrecognized(err)
            \/ AsConnectError(err) # Nil /\ AsConnectError(err)[1].code = CodeInternal)
    => /\ Len(SummaryCalls) = 1
       /\ SummaryCalls[1].level = LevelError

\* C5: a streaming call whose handler returns the end-of-stream sentinel has one
\* summary, at info level, "stream completed", without an error field; the
\* summary of every streaming call carries the numbers of messages sent and
\* received, which are the numbers of sends and receives that succeeded.
C5_EndOfStreamIsSuccess ==
    (Returned /\ call.kind = "stream") =>
        /\ Len(SummaryCalls) = 1
        /\ HasAttr(SummaryCalls[1], "messages")
        /\ Attr(SummaryCalls[1], "messages")
              = [sent |-> obs.okSends, received |-> obs.okRecvs]
        /\ obs.handlerRet.err = ioEOF =>
              /\ SummaryCalls[1].level = LevelInfo
              /\ SummaryCalls[1].msg = "stream completed"
              /\ ~HasAttr(SummaryCalls[1], "error")

C5_Witness ==
    /\ Returned
    /\ call.kind = "stream"
    /\ obs.handlerRet.err = ioEOF
    /\ obs.okSends = 3
    /\ obs.okRecvs = 2
    /\ Len(SummaryRecords) = 1
    /\ Attr(SummaryRecords[1], "messages") = [sent |-> 3, received |-> 2]

\* the counters and what Send and Receive returned, between operations
C6_Counters ==
    /\ conn.sentCount
          = obs.okSends - (IF sendOp.st = "called" /\ sendOp.under = Nil THEN 1 ELSE 0)
    /\ conn.receivedCount
          = obs.okRecvs - (IF recvOp.st = "called" /\ recvOp.under = Nil THEN 1 ELSE 0)
    /\ sendOp.st = "idle" => sendOp.ret = sendOp.under
    /\ recvOp.st = "idle" => recvOp.ret = recvOp.under

\* a Send or Receive whose underlying operation failed changes no counter and
\* logs nothing; a counter changes only after the underlying operation succeeded
C6_Step ==
    /\ (sendOp.st = "called" /\ sendOp.under # Nil /\ sendOp'.st = "idle")
          => conn' = conn /\ log' = log /\ sendOp'.ret = sendOp.under
    /\ (recvOp.st = "called" /\ recvOp.under # Nil /\ recvOp'.st = "idle")
          => conn' = conn /\ log' = log /\ recvOp'.ret = recvOp.under
    /\ conn'.sentCount # conn.sentCount
          => /\ sendOp.st = "called" /\ sendOp.under = Nil
             /\ conn'.sentCount = conn.sentCount + 1
             /\ conn'.receivedCount = conn.receivedCount
    /\ conn'.receivedCount # conn.receivedCount
          => /\ recvOp.st = "called" /\ recvOp.under = Nil
             /\ conn'.receivedCount = conn.receivedCount + 1
             /\ conn'.sentCount = conn.sentCount

\* C6: the sent counter is the number of sends whose underlying send succeeded
\* and the received counter the number of receives whose underlying receive
\* succeeded; a failed send or receive leaves both counters as they were, logs no
\* per-message record and returns the underlying error itself; a counter is
\* touched only after the underlying operation was invoked and succeeded.
C6_CountersCountSuccesses == []C6_Counters /\ [][C6_Step]_vars

C6_Witness ==
    /\ InStream
    /\ conn.sentCount = 2
    /\ conn.receivedCount = 1
    /\ sendOp.st = "idle"
    /\ sendOp.ret = errBrokenPipe
    /\ recvOp.ret = ioEOF

\* C7: redaction leaves the mapping it is given as it was and returns a mapping
\* with the same keys, where a sensitive key (one of the configured names or
\* "authorization" without regard to case, or a name containing "token",
\* "secret" or "password") has the one value "[REDACTED]" and every other key
\* its original values; so for every list the interceptor is configured with.
C7_Redaction ==
    /\ call.kind = "redact" => hdrIn = call.header
    /\ (call.kind = "redact" /\ pc = "done") =>
          /\ DOMAIN hdrOut = DOMAIN hdrIn
          /\ \A k \in DOMAIN hdrIn :
                IF Sensitive(k, redactHeaders) THEN hdrOut[k] = Redacted
                ELSE hdrOut[k] = hdrIn[k]

C7_Witness ==
    /\ call.kind = "redact"
    /\ pc = "done"
    /\ redactHeaders = <<>>
    /\ DOMAIN hdrIn = {kAuthorization, kXMyToken}
    /\ hdrIn[kAuthorization] = <<"v1">>
    /\ hdrOut[kAuthorization] = Redacted
    /\ hdrOut[kXMyToken] = Redacted

\* C8: the logging calls of a call and of its twin, which differs from it only
\* in the values of the sensitive request and response headers, are the same;
\* every headers field logged gives each sensitive key the value "[REDACTED]".
C8_NoSensitiveValueLogged ==
    /\ log = log2
    /\ \A i \in 1..Len(log) :
          HasAttr(log[i], "headers") =>
             \A k \in DOMAIN Attr(log[i], "headers") :
                Sensitive(k, redactHeaders) => Attr(log[i], "headers")[k] = Redacted

C8_Witness ==
    /\ Returned
    /\ call.kind = "unary"
    /\ call.req.header = hKeys
    /\ call.req2.header # call.req.header
    /\ ~obs.ret.res.nil
    /\ obs.ret.res.header = hKeys
    /\ Len(Records(log)) = 3
    /\ HasAttr(log[1], "headers")
    /\ HasAttr(log[2], "headers")

\* a cancellation, or a deadline error, of the context: one without a status code
IsCancellation(err) == AsConnectError(err) = Nil /\ Is(err, "canceled")

IsDeadline(err) ==
    /\ AsConnectError(err) = Nil
    /\ ~Is(err, "canceled")
    /\ Is(err, "deadline") \/ Is(err, "osdeadline")

\* C9: classifying nil gives nil; classifying a cancellation gives the canceled
\* singleton every time (code canceled, "request canceled"); classifying a
\* deadline error of the context or of the lower level gives the deadline
\* singleton every time (code deadline_exceeded, "request deadline exceeded");
\* the singletons stay as they were created.
C9_Singletons ==
    /\ errCanceled = InitErrCanceled
    /\ errDeadline = InitErrDeadline
    /\ \A i \in 1..Len(classified) :
          LET in == classified[i].input
              out == classified[i].result
          IN  /\ in = Nil => out = NilLoggable
              /\ in # Nil => out.addr # NilLoggable.addr
              /\ IsCancellation(in) =>
                    /\ out.addr = AddrCanceled
                    /\ Code(out) = CodeCanceled
                    /\ Message(out) = "request canceled"
              /\ IsDeadline(in) =>
                    /\ out.addr = AddrDeadline
                    /\ Code(out) = CodeDeadlineExceeded
                    /\ Message(out) = "request deadline exceeded"
    /\ \A i, j \in 1..Len(classified) :
          (\/ IsCancellation(classified[i].input) /\ IsCancellation(classified[j].input)
           \/ IsDeadline(classified[i].input) /\ IsDeadline(classified[j].input))
          => classified[i].result = classified[j].result

C9_Witness ==
    /\ Len(classified) = 2
    /\ classified[1].input = ctxDeadlineExceeded
    /\ classified[2].input = osErrDeadlineExceeded
    /\ classified[1].result.addr = AddrDeadline
    /\ classified[2].result.addr = AddrDeadline

\* C10: classifying an error that carries a status code keeps that code and the
\* message of its cause, whatever the cause is: a newly made value, not a
\* singleton; aborted around a context cancellation stays aborted with the
\* message "context canceled".
C10_StatusPreserved ==
    \A i \in 1..Len(classified) :
       LET in == classified[i].input
           out == classified[i].result
           status == AsConnectError(in)
       IN  /\ status # Nil =>
                 /\ Code(out) = status[1].code
                 /\ Message(out) = ErrorText(Tail(status))
                 /\ out.Error = status
                 /\ out.addr \notin {NilLoggable.addr, AddrCanceled, AddrDeadline}
           /\ in = NewError(CodeAborted, ctxCanceled) =>
                 /\ Code(out) = CodeAborted
                 /\ Message(out) = "context canceled"

C10_Witness ==
    /\ Len(classified) = 2
    /\ classified[1].input = NewError(CodeAborted, ctxCanceled)
    /\ Code(classified[1].result) = CodeAborted
    /\ classified[2].input = Errorf("rpc", errNotFound)
    /\ Code(classified[2].result) = CodeNotFound

\* C11: classification never fails and never gives nil for an error: every
\* non-nil error yields a classified error with a code of the enumeration and a
\* structured form of at least code and message; an error without a status
\* code that is no cancellation and no deadline error is classified as unknown
\* with its whole text, wrappers included, as the message.
C11_ClassificationTotal ==
    \A i \in 1..Len(classified) :
       LET in == classified[i].input
           out == classified[i].result
           form == classified[i].form
       IN  /\ in # Nil =>
                 /\ out.addr # NilLoggable.addr
                 /\ Code(out) \in AllCodes
                 /\ Len(form) >= 2
           /\ Unrecognized(in) =>
                 /\ Code(out) = CodeUnknown
                 /\ Message(out) = ErrorText(in)
                 /\ form[1] = <<"code", "unknown">>
                 /\ form[2] = <<"message", ErrorText(in)>>

C11_Witness ==
    /\ Len(classified) = 2
    /\ classified[1].input = Errorf("rpc", ErrorsNew("boom"))
    /\ Code(classified[1].result) = CodeUnknown
    /\ Message(classified[1].result) = "rpc: boom"
    /\ classified[2].input = detailedError("email", "invalid format")
    /\ Message(classified[2].result) = "validation error"

\* the first slog.LogValuer of a chain gives attributes: a group that is not
\* empty, or a value of another kind
ExposesAttributes(err) ==
    \E i \in 1..Len(err) :
       /\ err[i].lv.kind # "none"
       /\ \A j \in 1..(i - 1) : err[j].lv.kind = "none"
       /\ err[i].lv.kind = "Group" => err[i].lv.group # <<>>

OnlyCodeAndMessage(form) ==
    /\ Len(form) = 2
    /\ form[1][1] = "code"
    /\ form[2][1] = "message"

\* C12 (as claimed): the structured form of the classified error of every error
\* that exposes structured detail attributes has more than two fields, and that
\* of an error that exposes none has exactly the fields code and message.
C12_DetailsAddFields ==
    \A i \in 1..Len(classified) :
       LET in == classified[i].input
           form == classified[i].form
       IN  in # Nil =>
              IF ExposesAttributes(in) THEN Len(form) > 2 ELSE OnlyCodeAndMessage(form)

\* the cause a classified error embeds: the cause of the first status-code
\* error of the chain; nothing of the input for a cancellation or deadline
\* error, whose classified error is a singleton; the error itself otherwise
EmbeddedCause(err) ==
    IF AsConnectError(err) # Nil THEN Tail(AsConnectError(err))
    ELSE IF IsCancellation(err) \/ IsDeadline(err) THEN Nil
    ELSE err

\* C12 (amended): the structured form has more than two fields exactly when
\* the cause embedded in the classified error exposes structured detail
\* attributes; otherwise (no details at all, details only above the status-code
\* error, details on a cancellation or deadline error) it has exactly the
\* fields code and message.
C12_DetailsOfEmbeddedCause ==
    \A i \in 1..Len(classified) :
       LET in == classified[i].input
           form == classified[i].form
       IN  in # Nil =>
              IF ExposesAttributes(EmbeddedCause(in))
              THEN Len(form) > 2 /\ form[1][1] = "code" /\ form[2][1] = "message"
              ELSE OnlyCodeAndMessage(form)

C12_Witness ==
    /\ Len(classified) = 2
    /\ classified[1].input = detailedError("email", "invalid format")
    /\ Len(classified[1].form) = 4
    /\ classified[2].input = LogValuerWrap("read", GroupValue(opAttrs), ctxCanceled)
    /\ Len(classified[2].form) = 2

\* the interceptor was constructed with an absent sink (no option gives a
\* discarding logger of its own)
AbsentSink == logger.discard

\* a procedure of the form /service/method
ServiceAndMethod(procedure) ==
    /\ Len(procedure) >= 2
    /\ procedure[1] = "/"
    /\ \E i \in 2..Len(procedure) : procedure[i] = "/"

\* C13 (as claimed): with an absent sink no call faults (the calls with a
\* procedure /service/method are meant), the sink receives no record at any
\* level, and the call returns what the handler returned.
C13_AbsentSinkDisablesLogging ==
    AbsentSink =>
        /\ (pc = "panicked" => ~ServiceAndMethod(call.req.procedure))
        /\ Records(log) = <<>>
        /\ Returned => obs.ret = obs.handlerRet

\* a payload of none of the shapes whose size can be determined
UnknownSize(payload) ==
    payload.kind \notin {"nil", "proto", "bytes", "string", "raw", "sizer"}

\* the size fields of the unary summaries
UnarySizesOmitted ==
    \A i \in 1..Len(log) :
       (log[i].handled /\ log[i].msg \in SummaryMsgs("unary")) =>
          /\ UnknownSize(call.req.payload) => ~HasAttr(log[i], "request_size")
          /\ HasAttr(log[i], "request_size") => Attr(log[i], "request_size") >= 0
          /\ UnknownSize(obs.handlerRet.res.payload) => ~HasAttr(log[i], "response_size")
          /\ HasAttr(log[i], "response_size") => Attr(log[i], "response_size") >= 0

\* the size field of the per-message records of a stream
StreamSizesOmitted ==
    \A i \in 1..Len(log) :
       (log[i].handled /\ log[i].msg \in {"stream message sent", "stream message received"}) =>
          /\ UnknownSize(call.req.payload) => ~HasAttr(log[i], "size")
          /\ HasAttr(log[i], "size") => Attr(log[i], "size") >= 0

\* C14 (as claimed): the size of a payload of unknown shape is reported as a
\* value other than zero, and no record the sink receives carries a size field
\* for such a payload: neither request_size nor response_size in a unary
\* summary, nor size in a per-message record of a stream.
C14_UnknownSizeOmitted ==
    /\ \A p \in ReqPayloads \cup MsgTypes : UnknownSize(p) => calculateSize(p) # 0
    /\ UnarySizesOmitted
    /\ StreamSizesOmitted

\* C15: the summary of a unary call carries the duration, which is not smaller
\* than the time the handler took, and the request size exactly when it can be
\* determined; on success it is "request completed" at info level, without an
\* error field and with the response size exactly when that can be determined;
\* on failure it is "request failed" with an error field and without a response
\* size, even when the handler returned a response with the error, and no
\* "response completed" record was logged before it.
C15_UnarySummaryFields ==
    (Returned /\ call.kind = "unary") =>
        LET s == log[Len(log)]
            res == obs.handlerRet.res
        IN  /\ HasAttr(s, "duration")
            /\ Attr(s, "duration") >= obs.took
            /\ HasAttr(s, "request_size") <=> ~UnknownSize(call.req.payload)
            /\ HasAttr(s, "request_size") => Attr(s, "request_size") = call.req.payload.n
            /\ obs.handlerRet.err = Nil =>
                  /\ s.msg = "request completed"
                  /\ s.level = LevelInfo
                  /\ ~HasAttr(s, "error")
                  /\ HasAttr(s, "response_size") <=> ~UnknownSize(res.payload)
                  /\ HasAttr(s, "response_size") => Attr(s, "response_size") = res.payload.n
            /\ obs.handlerRet.err # Nil =>
                  /\ s.msg = "request failed"
                  /\ HasAttr(s, "error")
                  /\ ~HasAttr(s, "response_size")
                  /\ \A i \in 1..Len(log) : log[i].msg # "response completed"

C15_Witness ==
    /\ Returned
    /\ call.kind = "unary"
    /\ obs.handlerRet.err = errNotFound
    /\ ~obs.handlerRet.res.nil
    /\ obs.took = 1
    /\ Len(Records(log)) = 2
    /\ Attr(log[2], "duration") = 2
    /\ Attr(log[2], "request_size") = 3

\* debug verbosity is enabled in the sink
DebugVerbosity == ~logger.discard /\ logger.min <= LevelDebug

StartMsg(kind) == IF kind = "unary" THEN "request started" ELSE "stream started"

\* C16: the debug start record is logged before the handler is invoked, exactly
\* when debug verbosity is enabled, and is the first record of the call; no
\* summary is logged while the handler runs; the summary comes after the
\* handler returned, as the last record; on unary success with debug verbosity
\* the "response completed" record comes between the two; nothing is logged
\* before the call starts.
C16_OrderOfRecords ==
    /\ pc = "idle" => log = <<>>
    /\ (pc = "handler" \/ Returned) =>
          /\ obs.invoked = 1
          /\ obs.atInvoke = (IF DebugVerbosity THEN 1 ELSE 0)
          /\ obs.atInvoke = 1 => log[1].msg = StartMsg(call.kind) /\ log[1].level = LevelDebug
          /\ \A i \in 1..Len(log) : log[i].msg = StartMsg(call.kind) => i <= obs.atInvoke
    /\ pc = "handler" => \A i \in 1..Len(log) : ~IsSummary(log[i])
    /\ Returned =>
          /\ Len(log) > obs.atInvoke
          /\ \A i \in 1..Len(log) : IsSummary(log[i]) <=> i = Len(log)
    /\ (Returned /\ call.kind = "unary") =>
          \A i \in 1..Len(log) :
             log[i].msg = "response completed" =>
                /\ obs.handlerRet.err = Nil
                /\ DebugVerbosity
                /\ i > obs.atInvoke
                /\ i = Len(log) - 1
    /\ (Returned /\ call.kind = "unary" /\ obs.handlerRet.err = Nil /\ DebugVerbosity) =>
          /\ Len(log) = 3
          /\ log[2].msg = "response completed"

C16_Witness ==
    /\ Returned
    /\ call.kind = "unary"
    /\ obs.handlerRet.err = Nil
    /\ obs.atInvoke = 1
    /\ Len(Records(log)) = 3
    /\ log[1].msg = "request started"
    /\ log[2].msg = "response completed"
    /\ log[3].msg = "request completed"

\* C17 (as claimed): a streaming call whose handler returns an error other than
\* the end-of-stream sentinel itself, an error with a status code and the
\* sentinel as its cause included, has the summary "stream failed" with an
\* error field, at warning level for a classified code below internal and at
\* error level otherwise.
C17_OnlySentinelItselfIsSuccess ==
    (/\ Returned
     /\ call.kind = "stream"
     /\ obs.handlerRet.err # Nil
     /\ obs.handlerRet.err # ioEOF)
    => LET s == log[Len(log)]
       IN  /\ s.msg = "stream failed"
           /\ HasAttr(s, "error")
           /\ s.level = (IF Code(Attr(s, "error")) < CodeInternal
                         THEN LevelWarn ELSE LevelError)

\* the per-message records of one direction
PerMessage(calls, msg) == SelectSeq(calls, LAMBDA c : c.msg = msg)

\* C18 (as claimed): whatever the sink's level is set to during the stream, the
\* sink has received a per-message debug record for every successful Send and
\* Receive when debug was enabled as the connection was wrapped, and none when
\* it was not; the counters count the successful operations either way.
C18_VerbosityAtWrapDecides ==
    ((InStream \/ (Returned /\ call.kind = "stream"))
       /\ sendOp.st = "idle" /\ recvOp.st = "idle") =>
        /\ conn.sentCount = obs.okSends
        /\ conn.receivedCount = obs.okRecvs
        /\ Len(PerMessage(Records(log), "stream message sent"))
              = (IF obs.levelAtWrap <= LevelDebug THEN conn.sentCount ELSE 0)
        /\ Len(PerMessage(Records(log), "stream message received"))
              = (IF obs.levelAtWrap <= LevelDebug THEN conn.receivedCount ELSE 0)

C18_Calls ==
    ((InStream \/ (Returned /\ call.kind = "stream"))
       /\ sendOp.st = "idle" /\ recvOp.st = "idle") =>
        /\ conn.sentCount = obs.okSends
        /\ conn.receivedCount = obs.okRecvs
        /\ Len(PerMessage(log, "stream message sent"))
              = (IF obs.levelAtWrap <= LevelDebug THEN conn.sentCount ELSE 0)
        /\ Len(PerMessage(log, "stream message received"))
              = (IF obs.levelAtWrap <= LevelDebug THEN conn.receivedCount ELSE 0)

C18_Step ==
    /\ conn'.sentCount # conn.sentCount =>
          IF obs.levelAtWrap <= LevelDebug
          THEN /\ Len(log') = Len(log) + 1
               /\ log'[Len(log')].msg = "stream message sent"
               /\ Attr(log'[Len(log')], "number") = conn'.sentCount
               /\ log'[Len(log')].handled = (logger.min <= LevelDebug)
          ELSE log' = log
    /\ conn'.receivedCount # conn.receivedCount =>
          IF obs.levelAtWrap <= LevelDebug
          THEN /\ Len(log') = Len(log) + 1
               /\ log'[Len(log')].msg = "stream message received"
               /\ Attr(log'[Len(log')], "number") = conn'.receivedCount
               /\ log'[Len(log')].handled = (logger.min <= LevelDebug)
          ELSE log' = log
    /\ logger' # logger => conn' = conn /\ log' = log

\* C18 (amended): the wrapper decides once, as the connection is wrapped: when
\* debug was disabled then, no successful Send or Receive logs a per-message
\* record, also after the sink's level was lowered to debug; when it was
\* enabled then, every successful Send and Receive makes the debug logging call
\* with its running number, and the sink receives that record exactly when
\* debug is enabled in it at that moment; the counters count the successful
\* operations either way, and a change of level changes neither counter.
C18_WrapperDecidesSinkFilters == []C18_Calls /\ [][C18_Step]_vars

C18_Witness ==
    /\ InStream
    /\ obs.levelAtWrap = LevelDebug
    /\ logger.min = LevelInfo
    /\ conn.sentCount = 2
    /\ sendOp.st = "idle"
    /\ Len(PerMessage(log, "stream message sent")) = 2
    /\ Len(PerMessage(Records(log), "stream message sent")) = 1

\* the members of a structured form after code and message
AfterCodeAndMessage(form) == SubSeq(form, 3, Len(form))

SameAttrs(a, b) ==
    /\ Len(a) = Len(b)
    /\ \A k \in 1..Len(a) : a[k][1] = b[k][1] /\ a[k][2] = b[k][2]

\* C19: the structured form of a classified error starts with its code and
\* message; the details are those of the first error exposing any in the chain
\* of the cause of the classified error (of the classified error itself, which
\* exposes none, when it has no cause): the members of an attribute group
\* follow code and message in their order, a value of another kind follows as
\* the one field "details", and without such an error nothing follows.
C19_DetailsOfTheCause ==
    \A i \in 1..Len(classified) :
       LET out == classified[i].result
           form == classified[i].form
           orig == IF Tail(out.Error) = Nil THEN out.Error ELSE Tail(out.Error)
           at == {j \in 1..Len(orig) : orig[j].lv.kind # "none"}
           first == orig[CHOOSE j \in at : \A k \in at : j <= k].lv
       IN  out.addr # NilLoggable.addr =>
              /\ Len(form) >= 2
              /\ form[1] = <<"code", CodeNames[out.Error[1].code]>>
              /\ form[2][1] = "message"
              /\ at = {} => Len(form) = 2
              /\ at # {} =>
                    IF first.kind = "Group"
                    THEN SameAttrs(AfterCodeAndMessage(form), first.group)
                    ELSE /\ Len(form) = 3
                         /\ form[3][1] = "details"
                         /\ form[3][2] = first

C19_Witness ==
    /\ Len(classified) = 2
    /\ classified[1].input = NewError(CodeAborted, detailedError("email", "invalid format"))
    /\ SameAttrs(AfterCodeAndMessage(classified[1].form),
                 <<<<"field", "email">>, <<"reason", "invalid format">>>>)
    /\ classified[2].input = LogValuerError("quota", StringValue("5 of 5 used"))
    /\ Len(classified[2].form) = 3
    /\ classified[2].form[3][1] = "details"

\* the procedure after one leading separator was stripped
Stripped(procedure) ==
    IF procedure # <<>> /\ procedure[1] = "/" THEN Tail(procedure) ELSE procedure

NoSeparator(procedure) == \A i \in 1..Len(Stripped(procedure)) : Stripped(procedure)[i] # "/"

\* C20: a unary or streaming-handler call (the calls a request logger is built
\* for) whose procedure has no separator after the leading one faults
\* with an index fault while the request logger is built: the handler is not
\* invoked and nothing is logged; a call with a procedure /service/method that
\* reaches the handler has the logger attributes service, the text between the
\* leading and the next separator, and method, all of the text after that one.
C20_ProcedureParsing ==
    /\ (pc # "idle" /\ call.kind \in {"unary", "stream"}
          /\ NoSeparator(call.req.procedure)) =>
          /\ pc = "panicked"
          /\ call.fault = "slice bounds out of range"
          /\ obs.invoked = 0
          /\ log = <<>>
    /\ pc = "panicked" => obs.invoked = 0 /\ log = <<>>
    /\ ((pc = "handler" \/ Returned) /\ ServiceAndMethod(call.req.procedure)) =>
          LET service == call.base[1]
              method == call.base[2]
          IN  /\ service[1] = "service"
              /\ method[1] = "method"
              /\ call.req.procedure = Slash \o service[2] \o Slash \o method[2]
              /\ \A i \in 1..Len(service[2]) : service[2][i] # "/"

C20_Witness ==
    /\ pc = "panicked"
    /\ call.kind = "unary"
    /\ call.req.procedure = pNoSeparator
    /\ call.fault = "slice bounds out of range"
    /\ DebugVerbosity
    /\ log = <<>>

\* C23: a client-side streaming call returns the very connection the wrapped
\* function produced, not a counting one; the wrapped function is called once,
\* with the spec the call was given; no logging call is made and no counting
\* wrapper exists.
C23_ClientStreamPassedThrough ==
    (pc = "done" /\ call.kind = "client") =>
        /\ obs.invoked = 1
        /\ obs.passed = call.req
        /\ obs.ret = obs.handlerRet
        /\ ~obs.ret.res.counting
        /\ conn = NoConn
        /\ log = <<>>

C23_Witness ==
    /\ pc = "done"
    /\ call.kind = "client"
    /\ DebugVerbosity
    /\ call.req.procedure = pNoSeparator
    /\ obs.ret.res = [id |-> 2, counting |-> FALSE]

\* a successful Send, or Receive, that has not yet stored its counter
SendInFlight == IF sendOp.st # "idle" /\ sendOp.under = Nil THEN 1 ELSE 0

ReceiveInFlight == IF recvOp.st # "idle" /\ recvOp.under = Nil THEN 1 ELSE 0

C22_Counters ==
    /\ conn.sentCount = obs.okSends - SendInFlight
    /\ conn.receivedCount = obs.okRecvs - ReceiveInFlight
    /\ (Returned /\ call.kind = "stream") =>
          /\ conn.sentCount = obs.okSends
          /\ conn.receivedCount = obs.okRecvs
          /\ Attr(log[Len(log)], "messages")
                = [sent |-> obs.okSends, received |-> obs.okRecvs]

C22_Step ==
    /\ conn'.sentCount # conn.sentCount =>
          /\ sendOp.st = "loaded" /\ sendOp'.st = "idle"
          /\ conn'.sentCount = conn.sentCount + 1
          /\ conn'.receivedCount = conn.receivedCount
          /\ recvOp' = recvOp
    /\ conn'.receivedCount # conn.receivedCount =>
          /\ recvOp.st = "loaded" /\ recvOp'.st = "idle"
          /\ conn'.receivedCount = conn.receivedCount + 1
          /\ conn'.sentCount = conn.sentCount
          /\ sendOp' = sendOp

\* C22: with one task sending and one receiving on the same wrapped
\* connection, in every interleaving of their steps a counter is changed only
\* by its own operation, by one and with the other counter left as it was;
\* each counter is the number of successful operations less the one that has
\* not stored yet, so no increment is lost; the summary, written after both
\* tasks finished, carries the numbers of successful sends and receives.
C22_NoLostIncrement == []C22_Counters /\ [][C22_Step]_vars

C22_Witness ==
    /\ InStream
    /\ sendOp.st = "loaded"
    /\ recvOp.st = "loaded"
    /\ sendOp.reg = 2
    /\ recvOp.reg = 1
    /\ conn.sentCount = 2
    /\ conn.receivedCount = 1

\* the summaries logged with the peer address of call id
OwnSummaries(id) ==
    SelectSeq(log, LAMBDA c : IsSummary(c) /\ c.base[4] = <<"addr", PeerAddrs[id]>>)

C21_OwnCounters ==
    /\ errCanceled = InitErrCanceled
    /\ errDeadline = InitErrDeadline
    /\ \A id \in CallIds :
          /\ served[id].conn.sentCount
                = served[id].okSends - (IF served[id].op = "send" THEN 1 ELSE 0)
          /\ served[id].conn.receivedCount
                = served[id].okRecvs - (IF served[id].op = "receive" THEN 1 ELSE 0)
          /\ Len(OwnSummaries(id)) = (IF served[id].pc = "done" THEN 1 ELSE 0)
          /\ (served[id].pc = "done" /\ served[id].kind = "stream") =>
                Attr(OwnSummaries(id)[1], "messages")
                   = [sent |-> served[id].okSends, received |-> served[id].okRecvs]

C21_Step ==
    /\ <<logger, redactHeaders, contextLogFn, errCanceled, errDeadline>>'
          = <<logger, redactHeaders, contextLogFn, errCanceled, errDeadline>>
    /\ \A i, j \in CallIds : (served'[i] # served[i] /\ served'[j] # served[j]) => i = j
    /\ \A id \in CallIds :
          served'[id].conn # served[id].conn =>
             \/ served[id].pc = "idle" /\ served'[id].conn.sentCount = 0
                                      /\ served'[id].conn.receivedCount = 0
             \/ served[id].op = "send" /\ served'[id].op = "idle"
             \/ served[id].op = "receive" /\ served'[id].op = "idle"

\* C21: with several unary and streaming calls served at the same time, in
\* every interleaving of their steps the counters of a call are the numbers of
\* successful sends and receives on its own connection, the summary of each
\* streaming call carries exactly these, a step of one call changes the state
\* of no other call, and the configuration and the two package-level errors,
\* the only state the calls share, are never changed.
C21_CallsShareNoMutableState == []C21_OwnCounters /\ [][C21_Step]_vars

C21_Witness ==
    /\ served[1].pc = "done"
    /\ served[1].kind = "stream"
    /\ served[1].okSends = 1
    /\ served[1].okRecvs = 0
    /\ served[2].kind = "stream"
    /\ served[2].op = "receive"
    /\ served[2].conn.sentCount = 0
    /\ Attr(log[Len(log)], "messages") = [sent |-> 1, received |-> 0]

====
